---- MODULE Spec2Model ----
(***************************************************************************)
(* The MCP client manager of src/unnamed/part_006 (createMCPClientManager) *)
(* as a state machine.  Callers are asynchronous tasks on one event loop:  *)
(* every action below is one synchronous run of code between two awaits.   *)
(* Promises are explicit objects: an initialization attempt is an entry of *)
(* `attempts` (the promise returned by initializeClient), the bulk promise *)
(* of init() is `globalInitPromise` together with its per-server callbacks *)
(* in `bulk`.                                                              *)
(***************************************************************************)
EXTENDS Naturals, Integers, Sequences, FiniteSets, TLC

VARIABLES serverConfigs, clients, globalInitPromise, bulk, attempts, tasks, nops, ncalls

vars == <<serverConfigs, clients, globalInitPromise, bulk, attempts, tasks, nops, ncalls>>

\* ---------------------------------------------------------------- bounds
MaxTasks == 2
MaxAttempts == 3
MaxConfigOps == 2
MaxCalls == 2

Tasks == 1..MaxTasks

\* ------------------------------------------------------- the environment
\* Server names a caller may use.  "rag" is an entry of the static table;
\* "rag_v0" stands for a server registered at run time.
Names == {"rag", "rag_v0"}

\* The tools each server advertises through client.tools().
ServerTools(S) == IF S = "rag" THEN {"v0_search"} ELSE {"search", "v0_search"}

\* A tool object is identified by the server whose client produced it.
ToolObject(S, x) == [srv |-> S, name |-> x]

\* -------------------------------------------------------------- registry
\* The i-th character of a string.
At(s, i) == SubSeq(s, i, i)

\* The decimal digits (what \d matches).
Digits == {"0", "1", "2", "3", "4", "5", "6", "7", "8", "9"}

DigitValue(c) == CHOOSE d \in 0..9 : At("0123456789", d + 1) = c

\* a < b for the decimal strings, without leading zeros, of two integers.
NumLess(a, b) ==
    \/ Len(a) < Len(b)
    \/ /\ Len(a) = Len(b)
       /\ \E i \in 1..Len(a) :
             /\ DigitValue(At(a, i)) < DigitValue(At(b, i))
             /\ \A j \in 1..(i - 1) : At(a, j) = At(b, j)

\* The property keys that are array indices: the canonical decimal strings
\* of the integers below 2^32 - 1.  Object.keys(serverConfigs) lists them
\* first, in ascending order, and then the other keys in the order they
\* were created.
IsArrayIndex(s) ==
    /\ Len(s) >= 1
    /\ \A i \in 1..Len(s) : At(s, i) \in Digits
    /\ Len(s) = 1 \/ At(s, 1) # "0"
    /\ NumLess(s, "4294967295")

StaticServers == << [name |-> "rag", enabled |-> TRUE, valid |-> TRUE] >>

ConfigIndex(cfgs, S) == {i \in 1..Len(cfgs) : cfgs[i].name = S}

HasConfig(cfgs, S) == ConfigIndex(cfgs, S) # {}

getServerConfig(cfgs, S) == cfgs[CHOOSE i \in ConfigIndex(cfgs, S) : TRUE]

\* Object.keys(serverConfigs).filter(name => serverConfigs[name].enabled)
getAvailableServers(cfgs) ==
    LET sel == SelectSeq(cfgs, LAMBDA c : c.enabled)
    IN  [i \in 1..Len(sel) |-> sel[i].name]

Range(s) == {s[i] : i \in 1..Len(s)}

\* serverConfigs[config.name] = config : the value of an existing key is
\* replaced where the key is; a new key is created, after the other keys
\* when it is not an array index and among the array indices, in ascending
\* order, when it is one.  cfgs is the object in the order of its keys.
addServerConfig(cfgs, c) ==
    IF HasConfig(cfgs, c.name)
    THEN [i \in 1..Len(cfgs) |-> IF cfgs[i].name = c.name THEN c ELSE cfgs[i]]
    ELSE IF IsArrayIndex(c.name)
    THEN LET k == Cardinality({i \in 1..Len(cfgs) :
                        /\ IsArrayIndex(cfgs[i].name)
                        /\ NumLess(cfgs[i].name, c.name)})
         IN  SubSeq(cfgs, 1, k) \o <<c>> \o SubSeq(cfgs, k + 1, Len(cfgs))
    ELSE Append(cfgs, c)

\* delete serverConfigs[serverName]
removeServerConfig(cfgs, S) == SelectSeq(cfgs, LAMBDA c : c.name # S)

\* ---------------------------------------------------------- client state
NewClientState == [client |-> 0, tools |-> {}, initialized |-> FALSE, initPromise |-> 0]

getClientState(cl, S) == IF S \in DOMAIN cl THEN cl ELSE (S :> NewClientState) @@ cl

\* !state.initialized || !state.client, negated
Ready(st) == st.initialized /\ st.client # 0

isInitialized(cl, S) == IF S \in DOMAIN cl THEN Ready(cl[S]) ELSE FALSE

\* The catch block of initializeClient without `state.client = null`.
ClearState_KeepClient(cl, S) ==
    [cl EXCEPT ![S].tools = {}, ![S].initialized = FALSE]

\* The catch block of initializeClient.
ClearState(cl, S) ==
    [cl EXCEPT ![S].client = 0, ![S].tools = {}, ![S].initialized = FALSE]

\* --------------------------------------------------------------- attempts
Settled(a) == a.phase \in {"ok", "failed"}

InFlight(S) == {k \in 1..Len(attempts) : attempts[k].srv = S /\ ~Settled(attempts[k])}

\* initializeClient without the `!config.enabled` test of line 129.
initializeClient_NoGate(cfgs, cl, S) ==
    IF ~HasConfig(cfgs, S)
    THEN [clients |-> cl,
          attempt |-> [srv |-> S, phase |-> "failed", transport |-> FALSE, err |-> "NotConfigured"]]
    ELSE LET cl1 == getClientState(cl, S)
         IN  IF ~getServerConfig(cfgs, S).valid
             THEN [clients |-> ClearState(cl1, S),
                   attempt |-> [srv |-> S, phase |-> "failed", transport |-> FALSE, err |-> "Config"]]
             ELSE [clients |-> cl1,
                   attempt |-> [srv |-> S, phase |-> "handshake", transport |-> TRUE, err |-> "none"]]

\* initializeClient up to its first await.  The result is the promise (as an
\* attempt record) and the client map it leaves.
initializeClient(cfgs, cl, S) ==
    IF ~HasConfig(cfgs, S) \/ ~getServerConfig(cfgs, S).enabled
    THEN [clients |-> cl,
          attempt |-> [srv |-> S, phase |-> "failed", transport |-> FALSE, err |-> "NotConfigured"]]
    ELSE LET cl1 == getClientState(cl, S)
         IN  IF ~getServerConfig(cfgs, S).valid
             THEN [clients |-> ClearState(cl1, S),
                   attempt |-> [srv |-> S, phase |-> "failed", transport |-> FALSE, err |-> "Config"]]
             ELSE [clients |-> cl1,
                   attempt |-> [srv |-> S, phase |-> "handshake", transport |-> TRUE, err |-> "none"]]

\* ------------------------------------------------------------------ tasks
EmptyMap == [k \in {} |-> ToolObject("", "")]

\* The request a task handles in POST (the field req of a task holds it, or
\* is empty): what its body holds (json, questions,
\* n, url), how far the handler is (stage), the status it has decided on, the
\* HackRxLogEntry objects it has passed to logHackRxRequest (logs), whether
\* the logger stored them (stored), the responses it has returned, the
\* prompt, the calls of generateText (llm), the model's text and the answers.
NoRequest == [json |-> "none", questions |-> "none", n |-> 0, url |-> FALSE,
              stage |-> "none", status |-> 0, logs |-> <<>>, stored |-> <<>>,
              responses |-> <<>>, prompt |-> "none", llm |-> 0,
              text |-> "", answers |-> <<>>]

NoTask == [op |-> "none", pc |-> "idle", srv |-> "", role |-> "none", awaiting |-> 0,
           enabled |-> <<>>, i |-> 0, all |-> EmptyMap, got |-> {},
           outcome |-> "none", err |-> 0, client |-> 0, tools |-> {},
           prev |-> "none", prevEnabled |-> {}, cfgAtCall |-> <<>>,
           wrap |-> "none", returned |-> FALSE, ret |-> {},
           invoked |-> "", raw |-> [kind |-> "none", text |-> ""],
           result |-> "none", payload |-> "", off |-> FALSE,
           flag |-> FALSE, config |-> <<>>, req |-> <<>>, js |-> <<>>]

\* The callers that call init() and then getAllTools(): the HTTP endpoint
\* and the agent's tool loader.  (initMCPClient makes one call and returns
\* what it returns: it settles as that call does.)
Callers == {"POST", "getMCPTools"}

\* A task may call the manager when it is not inside a call, nor inside a
\* caller of the manager (wrap) that has not returned.  The tasks are
\* interchangeable: they are numbered in the order of their first calls.
Callable(t) ==
    /\ tasks[t].pc \in {"idle", "done"}
    /\ tasks[t].wrap \notin Callers \/ tasks[t].returned
    /\ IF tasks[t].req = <<>> THEN TRUE ELSE tasks[t].req[1].stage \in {"none", "responded"}
    /\ tasks[t].js = <<>>
    /\ ncalls < MaxCalls
    /\ \A u \in Tasks : u < t => tasks[u].op # "none"

\* The record a task starts a call with.  cfgAtCall is the registry at the
\* moment of a call of init() or getAllTools(); off tells that a getClient or
\* getTools was called for a server that was then neither ready nor
\* registered as enabled; prev and prevEnabled remember
\* that the task's previous call was an init() that resolved, and the servers
\* that were enabled when it was made.
Begin(t, op, S) ==
    LET r == [NoTask EXCEPT !.op = op, !.srv = S,
                 !.cfgAtCall = IF op \in {"init", "getAllTools"} THEN serverConfigs ELSE <<>>,
                 !.off = /\ op \in {"getClient", "getTools"}
                         /\ ~isInitialized(clients, S)
                         /\ \/ ~HasConfig(serverConfigs, S)
                            \/ ~getServerConfig(serverConfigs, S).enabled]
    IN  IF tasks[t].op = "init" /\ tasks[t].outcome = "resolved"
        THEN [r EXCEPT !.prev = "init", !.prevEnabled = Range(tasks[t].enabled)]
        ELSE r

Done(t, op) == tasks[t].op = op /\ tasks[t].pc = "done"

Init ==
    /\ serverConfigs = StaticServers
    /\ clients = [S \in {} |-> NewClientState]
    /\ globalInitPromise = FALSE
    /\ bulk = [S \in Names |-> [st |-> "none", id |-> 0]]
    /\ attempts = <<>>
    /\ tasks = [t \in Tasks |-> NoTask]
    /\ nops = 0
    /\ ncalls = 0

\* ------------------------------------------------- getClient and getTools
\* getClient without the `if (state.initPromise)` branch of lines 232-233.
getClientMode_NoJoin(st) == IF Ready(st) THEN "ready" ELSE "start"

\* getClient without the `!state.initialized || !state.client` test of
\* line 231.
getClientMode_NoFast(st) == IF st.initPromise # 0 THEN "join" ELSE "start"

\* Lines 231-235: what getClient does with the state it finds.
getClientMode(st) ==
    IF Ready(st) THEN "ready"
    ELSE IF st.initPromise # 0 THEN "join" ELSE "start"

Qualified(S, x) == S \o "_" \o x

\* The qualified names of the tools the servers Ss advertise.
QualifiedTools(Ss) == UNION {{Qualified(S, x) : x \in ServerTools(S)} : S \in Ss}

\* Lines 267-270: Object.keys(tools).forEach(... allTools[prefixedName] = tools[toolName])
MergeTools(all, S, tools) ==
    LET new == {Qualified(S, x) : x \in tools}
    IN  [k \in (DOMAIN all) \cup new |->
            IF k \in new THEN ToolObject(S, CHOOSE x \in tools : Qualified(S, x) = k)
            ELSE all[k]]

Resolve(r) == [r EXCEPT !.pc = "done", !.outcome = "resolved"]

Reject(r, e) == [r EXCEPT !.pc = "done", !.outcome = "rejected", !.err = e]

\* What each operation returns when the server is ready on entry:
\* getClient line 244, getTools line 254, getAllTools lines 266-270.
OnReady(r, st, S) ==
    CASE r.op = "getClient"   -> [Resolve(r) EXCEPT !.client = st.client]
      [] r.op = "getTools"    -> [Resolve(r) EXCEPT !.tools = st.tools]
      [] r.op = "getAllTools" -> [r EXCEPT !.pc = "loop", !.i = r.i + 1,
                                           !.all = MergeTools(r.all, S, st.tools),
                                           !.got = r.got \cup {S}]

\* getTools(S), and getClient(S) inside it, up to the first await, run by the
\* task whose record is r on the client map cl.
Request(t, r, S, cl0) ==
    LET cl   == getClientState(cl0, S)
        mode == getClientMode(cl[S])
        id   == Len(attempts) + 1
        ic   == initializeClient(serverConfigs, cl, S)
    IN  CASE mode = "ready" ->
               /\ clients' = cl
               /\ attempts' = attempts
               /\ tasks' = [tasks EXCEPT ![t] = OnReady(r, cl[S], S)]
          [] mode = "join" ->
               /\ clients' = cl
               /\ attempts' = attempts
               /\ tasks' = [tasks EXCEPT ![t] =
                      [r EXCEPT !.pc = "await", !.srv = S, !.role = "join",
                                !.awaiting = cl[S].initPromise]]
          [] mode = "start" ->
               /\ Len(attempts) < MaxAttempts
               /\ attempts' = Append(attempts, ic.attempt)
               /\ clients' = [ic.clients EXCEPT ![S].initPromise = id]
               /\ tasks' = [tasks EXCEPT ![t] =
                      [r EXCEPT !.pc = "await", !.srv = S, !.role = "start",
                                !.awaiting = id]]

\* getClient(S) called by w: a task itself ("none") or initMCPClient.
getClientCall(t, S, w) ==
    /\ Callable(t)
    /\ Request(t, [Begin(t, "getClient", S) EXCEPT !.wrap = w], S, clients)
    /\ ncalls' = ncalls + 1
    /\ UNCHANGED <<serverConfigs, globalInitPromise, bulk, nops>>

\* mcpClientManager.getClient(S) called by a task directly.
getClient(t, S) == getClientCall(t, S, "none")

getTools(t, S) ==
    /\ Callable(t)
    /\ Request(t, Begin(t, "getTools", S), S, clients)
    /\ ncalls' = ncalls + 1
    /\ UNCHANGED <<serverConfigs, globalInitPromise, bulk, nops>>

\* The for loop of getAllTools from its i-th server on (lines 264-276).
Continue(t, r, cl) ==
    IF r.i > Len(r.enabled)
    THEN /\ tasks' = [tasks EXCEPT ![t] = Resolve(r)]
         /\ clients' = cl
         /\ attempts' = attempts
    ELSE Request(t, r, r.enabled[r.i], cl)

getAllTools(t) ==
    /\ Callable(t)
    /\ Continue(t, [Begin(t, "getAllTools", "") EXCEPT
                       !.enabled = getAvailableServers(serverConfigs), !.i = 1],
                clients)
    /\ ncalls' = ncalls + 1
    /\ UNCHANGED <<serverConfigs, globalInitPromise, bulk, nops>>

\* The await of an already resolved getTools promise ends: next iteration.
Loop(t) ==
    /\ tasks[t].pc = "loop"
    /\ Continue(t, tasks[t], clients)
    /\ UNCHANGED <<serverConfigs, globalInitPromise, bulk, nops, ncalls>>

\* getClient with the rejection of the awaited promise swallowed.
AfterAwait_Swallow(r, a, st) ==
    IF r.op = "getClient" THEN [Resolve(r) EXCEPT !.client = st.client]
    ELSE [r EXCEPT !.pc = "after"]

\* getClient after `await state.initPromise` (lines 233, 237, 244) and what
\* getTools does with it (lines 251-254): a rejection propagates to the
\* caller, a success returns state.client to getClient's caller and lets
\* getTools go on to its return.
AfterAwait(r, a, st) ==
    IF a.phase = "failed" THEN Reject(r, r.awaiting)
    ELSE IF r.op = "getClient" THEN [Resolve(r) EXCEPT !.client = st.client]
    ELSE [r EXCEPT !.pc = "after"]

\* AwaitResume without the try/catch of getAllTools (lines 265, 271-273).
AwaitResume_NoCatch(t) ==
    LET r  == tasks[t]
        a  == attempts[r.awaiting]
        cl == IF r.role = "start"
              THEN [clients EXCEPT ![r.srv].initPromise = 0] ELSE clients
    IN  /\ r.pc = "await"
        /\ Settled(a)
        /\ tasks' = [tasks EXCEPT ![t] = AfterAwait(r, a, cl[r.srv])]
        /\ clients' = cl
        /\ attempts' = attempts
        /\ UNCHANGED <<serverConfigs, globalInitPromise, bulk, nops, ncalls>>

\* AwaitResume without the finally block of getClient (lines 238-240).
AwaitResume_NoFinally(t) ==
    LET r  == tasks[t]
        a  == attempts[r.awaiting]
    IN  /\ r.pc = "await"
        /\ Settled(a)
        /\ IF a.phase = "failed" /\ r.op = "getAllTools"
           THEN Continue(t, [r EXCEPT !.i = r.i + 1, !.role = "none", !.awaiting = 0], clients)
           ELSE /\ tasks' = [tasks EXCEPT ![t] = AfterAwait(r, a, clients[r.srv])]
                /\ clients' = clients
                /\ attempts' = attempts
        /\ UNCHANGED <<serverConfigs, globalInitPromise, bulk, nops, ncalls>>

\* The task resumes after `await state.initPromise`: the starter's finally
\* clears the handle (lines 238-240); getAllTools catches a rejection and
\* goes on with the next server (lines 271-273).
AwaitResume(t) ==
    LET r  == tasks[t]
        a  == attempts[r.awaiting]
        cl == IF r.role = "start"
              THEN [clients EXCEPT ![r.srv].initPromise = 0] ELSE clients
    IN  /\ r.pc = "await"
        /\ Settled(a)
        /\ IF a.phase = "failed" /\ r.op = "getAllTools"
           THEN Continue(t, [r EXCEPT !.i = r.i + 1, !.role = "none", !.awaiting = 0], cl)
           ELSE /\ tasks' = [tasks EXCEPT ![t] = AfterAwait(r, a, cl[r.srv])]
                /\ clients' = cl
                /\ attempts' = attempts
        /\ UNCHANGED <<serverConfigs, globalInitPromise, bulk, nops, ncalls>>

\* getTools after `await this.getClient(serverName)`: return state.tools
\* (line 254); in getAllTools the tools are merged and the loop goes on.
AfterGetClient(t) ==
    LET r  == tasks[t]
        st == clients[r.srv]
    IN  /\ r.pc = "after"
        /\ IF r.op = "getAllTools"
           THEN Continue(t, [r EXCEPT !.i = r.i + 1, !.role = "none", !.awaiting = 0,
                                      !.all = MergeTools(r.all, r.srv, st.tools),
                                      !.got = r.got \cup {r.srv}], clients)
           ELSE /\ tasks' = [tasks EXCEPT ![t] = [Resolve(r) EXCEPT !.tools = st.tools]]
                /\ UNCHANGED <<clients, attempts>>
        /\ UNCHANGED <<serverConfigs, globalInitPromise, bulk, nops, ncalls>>

\* ------------------------------------------------ the transport's answers
\* initializeClient with `state.initialized = true` set once the client is
\* created, before the tools are listed (lines 166-171).
Handshake_EarlyReady(k, ok) ==
    LET S == attempts[k].srv
    IN  /\ attempts[k].phase = "handshake"
        /\ IF ok
           THEN /\ clients' = [clients EXCEPT ![S].client = k, ![S].initialized = TRUE]
                /\ attempts' = [attempts EXCEPT ![k].phase = "listing"]
           ELSE /\ clients' = ClearState(clients, S)
                /\ attempts' = [attempts EXCEPT ![k].phase = "failed", ![k].err = "Transport"]
        /\ UNCHANGED <<serverConfigs, globalInitPromise, bulk, tasks, nops, ncalls>>

\* initializeClient with the created client not stored (line 166).
Handshake_ClientNotStored(k, ok) ==
    LET S == attempts[k].srv
    IN  /\ attempts[k].phase = "handshake"
        /\ IF ok
           THEN /\ clients' = clients
                /\ attempts' = [attempts EXCEPT ![k].phase = "listing"]
           ELSE /\ clients' = ClearState(clients, S)
                /\ attempts' = [attempts EXCEPT ![k].phase = "failed", ![k].err = "Transport"]
        /\ UNCHANGED <<serverConfigs, globalInitPromise, bulk, tasks, nops, ncalls>>

\* `await experimental_createMCPClient({transport})` settles (lines 166-170,
\* 173-178): on success state.client is set and client.tools() is called.
Handshake(k, ok) ==
    LET S == attempts[k].srv
    IN  /\ attempts[k].phase = "handshake"
        /\ IF ok
           THEN /\ clients' = [clients EXCEPT ![S].client = k]
                /\ attempts' = [attempts EXCEPT ![k].phase = "listing"]
           ELSE /\ clients' = ClearState(clients, S)
                /\ attempts' = [attempts EXCEPT ![k].phase = "failed", ![k].err = "Transport"]
        /\ UNCHANGED <<serverConfigs, globalInitPromise, bulk, tasks, nops, ncalls>>

\* initializeClient with the result of client.tools() not stored (line 170).
ListTools_NotStored(k, ok) ==
    LET S == attempts[k].srv
    IN  /\ attempts[k].phase = "listing"
        /\ IF ok
           THEN /\ clients' = [clients EXCEPT ![S].initialized = TRUE]
                /\ attempts' = [attempts EXCEPT ![k].phase = "ok"]
           ELSE /\ clients' = ClearState(clients, S)
                /\ attempts' = [attempts EXCEPT ![k].phase = "failed", ![k].err = "ToolList"]
        /\ UNCHANGED <<serverConfigs, globalInitPromise, bulk, tasks, nops, ncalls>>

\* `await state.client.tools()` settles (lines 170-172, 173-178).
ListTools(k, ok) ==
    LET S == attempts[k].srv
    IN  /\ attempts[k].phase = "listing"
        /\ IF ok
           THEN /\ clients' = [clients EXCEPT ![S].tools = ServerTools(S),
                                              ![S].initialized = TRUE]
                /\ attempts' = [attempts EXCEPT ![k].phase = "ok"]
           ELSE /\ clients' = ClearState(clients, S)
                /\ attempts' = [attempts EXCEPT ![k].phase = "failed", ![k].err = "ToolList"]
        /\ UNCHANGED <<serverConfigs, globalInitPromise, bulk, tasks, nops, ncalls>>

\* ------------------------------------------------------------------- init
NoBulk == [S \in Names |-> [st |-> "none", id |-> 0]]

\* Lines 192-195: every enabled server has a state that is initialized with
\* a client.
allInitialized(cfgs, cl) ==
    \A S \in Range(getAvailableServers(cfgs)) : S \in DOMAIN cl /\ Ready(cl[S])

\* Lines 205-213: what a callback of the bulk map does with the state it finds.
initCallbackMode(st) ==
    IF Ready(st) THEN "ready"
    ELSE IF st.initPromise # 0 THEN "join" ELSE "start"

\* enabledServers.map(async serverName => ...), lines 202-219: the callbacks
\* run one after the other, each up to its first await.
RECURSIVE BulkMap(_, _, _, _, _)
BulkMap(en, i, cl0, att, bk) ==
    IF i > Len(en)
    THEN [clients |-> cl0, attempts |-> att, bulk |-> bk]
    ELSE LET S    == en[i]
             cl   == getClientState(cl0, S)
             mode == initCallbackMode(cl[S])
             id   == Len(att) + 1
             ic   == initializeClient(serverConfigs, cl, S)
         IN  CASE mode = "ready" ->
                    BulkMap(en, i + 1, cl, att, [bk EXCEPT ![S] = [st |-> "done", id |-> 0]])
               [] mode = "join" ->
                    BulkMap(en, i + 1, cl, att,
                            [bk EXCEPT ![S] = [st |-> "join", id |-> cl[S].initPromise]])
               [] mode = "start" ->
                    BulkMap(en, i + 1, [ic.clients EXCEPT ![S].initPromise = id],
                            Append(att, ic.attempt),
                            [bk EXCEPT ![S] = [st |-> "start", id |-> id]])

\* init() up to its await (lines 183-225).  `enabled` of a call that joins
\* the bulk promise in flight records the servers enabled at the call.
\* The manager calls a call of the caller w makes: init() alone, or init()
\* and then getAllTools().
Cost(w) == IF w \in Callers THEN 2 ELSE 1

initCall(t, w, q) ==
    LET r  == [Begin(t, "init", "") EXCEPT !.enabled = getAvailableServers(serverConfigs),
                                           !.wrap = w, !.req = q]
        bm == BulkMap(r.enabled, 1, clients, attempts, NoBulk)
    IN  /\ Callable(t)
        /\ ncalls + Cost(w) <= MaxCalls
        /\ IF globalInitPromise
           THEN /\ tasks' = [tasks EXCEPT ![t] = [r EXCEPT !.pc = "bulkWait", !.role = "join"]]
                /\ UNCHANGED <<clients, attempts, bulk, globalInitPromise>>
           ELSE IF allInitialized(serverConfigs, clients)
           THEN /\ tasks' = [tasks EXCEPT ![t] = Resolve(r)]
                /\ UNCHANGED <<clients, attempts, bulk, globalInitPromise>>
           ELSE /\ Len(bm.attempts) <= MaxAttempts
                /\ clients' = bm.clients
                /\ attempts' = bm.attempts
                /\ bulk' = bm.bulk
                /\ globalInitPromise' = TRUE
                /\ tasks' = [tasks EXCEPT ![t] = [r EXCEPT !.pc = "bulkWait", !.role = "start"]]
        /\ ncalls' = ncalls + Cost(w)
        /\ UNCHANGED <<serverConfigs, nops>>

\* mcpClientManager.init() called by a task directly.
init(t) == initCall(t, "none", <<>>)

\* The callback of the bulk map without its finally block (lines 216-218).
BulkCallback_NoFinally(S) ==
    /\ bulk[S].st \in {"join", "start"}
    /\ Settled(attempts[bulk[S].id])
    /\ clients' = clients
    /\ bulk' = [bulk EXCEPT ![S] = [st |-> "done", id |-> 0]]
    /\ UNCHANGED <<serverConfigs, globalInitPromise, attempts, tasks, nops, ncalls>>

\* A callback of the bulk map after its await (lines 210, 215-218); its
\* rejection stays inside Promise.allSettled.
BulkCallback(S) ==
    /\ bulk[S].st \in {"join", "start"}
    /\ Settled(attempts[bulk[S].id])
    /\ clients' = IF bulk[S].st = "start"
                  THEN [clients EXCEPT ![S].initPromise = 0] ELSE clients
    /\ bulk' = [bulk EXCEPT ![S] = [st |-> "done", id |-> 0]]
    /\ UNCHANGED <<serverConfigs, globalInitPromise, attempts, tasks, nops, ncalls>>

\* .then(() => { globalInitPromise = null }) once every callback has settled
\* (lines 220-223); the promise the init() callers await resolves.
BulkThen ==
    /\ globalInitPromise
    /\ \A S \in Names : bulk[S].st \in {"none", "done"}
    /\ globalInitPromise' = FALSE
    /\ bulk' = NoBulk
    /\ tasks' = [t \in Tasks |->
                   IF tasks[t].pc = "bulkWait" THEN [tasks[t] EXCEPT !.pc = "bulkWake"]
                   ELSE tasks[t]]
    /\ UNCHANGED <<serverConfigs, clients, attempts, nops, ncalls>>

\* init() after `await globalInitPromise` (lines 185, 225).
InitResume(t) ==
    /\ tasks[t].pc = "bulkWake"
    /\ tasks' = [tasks EXCEPT ![t] = Resolve(tasks[t])]
    /\ UNCHANGED <<serverConfigs, clients, globalInitPromise, bulk, attempts, nops, ncalls>>

\* ------------------------------------------------ callers of the manager
\* The tools a caller has besides the MCP ones: getStaticTools() in the HTTP
\* endpoint (route.ts line 46), tavilySearch in the agent (index.ts line 34).
StaticTools(w) == IF w = "POST" THEN {"javaScriptTool"} ELSE {"tavilySearch"}

StaticTool(x) == ToolObject("", x)

\* route.ts lines 44-58: tools = {...staticTools, ...mcpTools}, as the set
\* of the entries of the object.
POSTTools(mcp) ==
    {[name |-> q, tool |-> IF q \in DOMAIN mcp THEN mcp[q] ELSE StaticTool(q)] :
        q \in StaticTools("POST") \cup DOMAIN mcp}

\* index.ts lines 29-48: the static tool, then one adapted tool per entry of
\* getMCPTools(), as the set of the elements of the array.
AgentTools(mcp) ==
    {[name |-> q, tool |-> StaticTool(q)] : q \in StaticTools("getMCPTools")}
        \cup {[name |-> q, tool |-> mcp[q]] : q \in DOMAIN mcp}

\* The caller's tools without the MCP ones.
CallerTools_StaticOnly(w, r) ==
    IF w = "POST" THEN POSTTools(EmptyMap) ELSE AgentTools(EmptyMap)

\* The tools the caller goes on with once the manager call recorded in r has
\* settled: a rejection is caught and leaves the MCP tools out (route.ts
\* lines 59-61, mcpTools.ts lines 8-11).
CallerTools(w, r) ==
    LET mcp == IF r.outcome = "resolved" THEN r.all ELSE EmptyMap
    IN  IF w = "POST" THEN POSTTools(mcp) ELSE AgentTools(mcp)

\* ------------------------------------------------------ the HTTP endpoint
\* The request bodies: not JSON, the JSON null, and objects whose questions
\* member is absent, falsy (null, 0, ""), a non-empty string, or an array of
\* n questions; url tells whether the body has a url.
Body(j, q, n, u) == [json |-> j, questions |-> q, n |-> n, url |-> u]

Requests ==
    {Body("unparsable", "missing", 0, FALSE), Body("null", "missing", 0, FALSE),
     Body("object", "missing", 0, FALSE), Body("object", "falsy", 0, TRUE),
     Body("object", "string", 3, FALSE), Body("object", "array", 0, FALSE),
     Body("object", "array", 1, TRUE), Body("object", "array", 2, FALSE)}

\* `await req.json()` and the reads of lines 19-23 throw for a body that is
\* not JSON or is null.
Throws(b) == b.json \in {"unparsable", "null"}

\* questions = requestBody.questions || [] (line 23).
QuestionsOrEmpty(b) ==
    IF b.questions \in {"missing", "falsy"}
    THEN [b EXCEPT !.questions = "array", !.n = 0] ELSE b

\* !Array.isArray(questions) || questions.length === 0 (line 25).
InvalidQuestions(b) ==
    LET q == QuestionsOrEmpty(b) IN q.questions # "array" \/ q.n = 0

\* The request of a handler that has called logHackRxRequest with an entry
\* whose success is ok and will answer with status st.
LogCall(q, ok, st) ==
    [q EXCEPT !.stage = "logging", !.status = st, !.logs = Append(q.logs, [success |-> ok])]

NewRequest(b) ==
    [NoRequest EXCEPT !.json = b.json, !.questions = b.questions, !.n = b.n,
                      !.url = b.url, !.stage = "tools"]

\* A handler that is not in a call of the manager.
Handling(t, q) == [NoTask EXCEPT !.op = "POST", !.wrap = "POST", !.req = <<q>>]

\* POST without the check of line 25.
POST_NoValidation(t, b) ==
    IF Throws(b)
    THEN /\ Callable(t)
         /\ ncalls + Cost("POST") <= MaxCalls
         /\ tasks' = [tasks EXCEPT ![t] = Handling(t, LogCall(NewRequest(b), FALSE, 500))]
         /\ ncalls' = ncalls + Cost("POST")
         /\ UNCHANGED <<serverConfigs, clients, globalInitPromise, bulk, attempts, nops>>
    ELSE initCall(t, "POST", <<NewRequest(b)>>)

\* POST of the HTTP endpoint up to its first await after the body is read
\* (route.ts lines 12-52): the catch block's logHackRxRequest for a body
\* that throws, the logHackRxRequest of line 26 for questions that are not a
\* non-empty array, `await mcpClientManager.init()` otherwise.
POST(t, b) ==
    IF Throws(b) \/ InvalidQuestions(b)
    THEN /\ Callable(t)
         /\ ncalls + Cost("POST") <= MaxCalls
         /\ tasks' = [tasks EXCEPT ![t] =
                Handling(t, LogCall(NewRequest(b), FALSE, IF Throws(b) THEN 500 ELSE 400))]
         /\ ncalls' = ncalls + Cost("POST")
         /\ UNCHANGED <<serverConfigs, clients, globalInitPromise, bulk, attempts, nops>>
    ELSE initCall(t, "POST", <<NewRequest(b)>>)

\* getAllTools() of the agent calling getMCPTools(), up to its
\* `await mcpClientManager.init()` (index.ts lines 29-37, mcpTools.ts 3-5).
getMCPTools(t) == initCall(t, "getMCPTools", <<>>)

\* After `await mcpClientManager.init()`: the caller calls getAllTools()
\* (route.ts line 53, mcpTools.ts line 6), or its catch runs.
CallGetAllTools(t) ==
    LET r == tasks[t]
    IN  /\ r.wrap \in Callers /\ ~r.returned
        /\ Done(t, "init")
        /\ IF r.outcome = "resolved"
           THEN Continue(t, [Begin(t, "getAllTools", "") EXCEPT
                                !.enabled = getAvailableServers(serverConfigs), !.i = 1,
                                !.wrap = r.wrap, !.req = r.req],
                         clients)
           ELSE /\ tasks' = [tasks EXCEPT ![t] =
                       [r EXCEPT !.returned = TRUE, !.ret = CallerTools(r.wrap, r)]]
                /\ UNCHANGED <<clients, attempts>>
        /\ UNCHANGED <<serverConfigs, globalInitPromise, bulk, nops, ncalls>>

\* After `await mcpClientManager.getAllTools()`: the caller has its tools
\* (route.ts lines 55-61, index.ts lines 38-47).
Return(t) ==
    LET r == tasks[t]
    IN  /\ r.wrap \in Callers /\ ~r.returned
        /\ Done(t, "getAllTools")
        /\ tasks' = [tasks EXCEPT ![t] =
               [r EXCEPT !.returned = TRUE, !.ret = CallerTools(r.wrap, r)]]
        /\ UNCHANGED <<serverConfigs, clients, globalInitPromise, bulk, attempts, nops, ncalls>>

\* --------------------------------------------------- parseSimpleAnswers
\* What \s matches and trim() removes.
WhiteSpace == {" ", "\t", "\r", "\n"}

\* responseText.split('\n')
RECURSIVE split(_)
split(s) ==
    LET I == {i \in 1..Len(s) : At(s, i) = "\n"}
    IN  IF I = {} THEN <<s>>
        ELSE LET i == CHOOSE i \in I : \A j \in I : i <= j
             IN  <<SubSeq(s, 1, i - 1)>> \o split(SubSeq(s, i + 1, Len(s)))

\* String.prototype.trim
trim(s) ==
    LET K == {i \in 1..Len(s) : At(s, i) \notin WhiteSpace}
    IN  IF K = {} THEN ""
        ELSE SubSeq(s, CHOOSE i \in K : \A j \in K : i <= j,
                       CHOOSE i \in K : \A j \in K : i >= j)

\* The first position from i on whose character is not in C: where a greedy
\* C* that starts at i stops.
Star(s, i, C) ==
    CHOOSE j \in i..(Len(s) + 1) :
        /\ \A k \in i..(j - 1) : At(s, k) \in C
        /\ j <= Len(s) => At(s, j) \notin C

From(s, i) == SubSeq(s, i, Len(s))

\* answer.replace(/^(Answer\s*\d+\s*:?\s*)/i, '')
replaceAnswer(s) ==
    IF Len(s) >= 6 /\ \A i \in 1..6 : At(s, i) \in {At("answer", i), At("ANSWER", i)}
    THEN LET a == Star(s, 7, WhiteSpace)
             b == Star(s, a, Digits)
             c == Star(s, b, WhiteSpace)
             d == IF c <= Len(s) /\ At(s, c) = ":" THEN c + 1 ELSE c
         IN  IF b > a THEN From(s, Star(s, d, WhiteSpace)) ELSE s
    ELSE s

\* answer.replace(/^(\d+\.\s+)/i, '')
replaceNumber(s) ==
    LET a == Star(s, 1, Digits)
        b == Star(s, a + 1, WhiteSpace)
    IN  IF a > 1 /\ a <= Len(s) /\ At(s, a) = "." /\ b > a + 1 THEN From(s, b) ELSE s

\* answer.replace(/^[-*]\s*/, '')
replaceBullet(s) ==
    IF Len(s) >= 1 /\ At(s, 1) \in {"-", "*"} THEN From(s, Star(s, 2, WhiteSpace)) ELSE s

\* Lines 17-20: the surrounding quotes are sliced off.
sliceQuotes(s) ==
    IF Len(s) >= 1 /\ \E q \in {"\"", "'"} : At(s, 1) = q /\ At(s, Len(s)) = q
    THEN SubSeq(s, 2, Len(s) - 1) ELSE s

NonEmpty(l) == l # ""

\* Lines 2-5.
lines(responseText) ==
    LET sp == split(responseText)
    IN  SelectSeq([i \in 1..Len(sp) |-> trim(sp[i])], NonEmpty)

\* parseSimpleAnswers whose loop stops at the last line.
parseSimpleAnswers_NoPadding(responseText, expectedAnswerCount) ==
    LET ls == lines(responseText)
        m  == IF expectedAnswerCount < Len(ls) THEN expectedAnswerCount ELSE Len(ls)
    IN  [i \in 1..m |-> trim(sliceQuotes(replaceBullet(replaceNumber(replaceAnswer(ls[i])))))]

\* parseSimpleAnswers(responseText, expectedAnswerCount), lines 1-29.
parseSimpleAnswers(responseText, expectedAnswerCount) ==
    LET ls == lines(responseText)
    IN  [i \in 1..expectedAnswerCount |->
            IF i <= Len(ls)
            THEN trim(sliceQuotes(replaceBullet(replaceNumber(replaceAnswer(ls[i])))))
            ELSE "NOT_FOUND"]

\* The texts the model may answer with.
LLMTexts == {"", "Paris", "Answer 1: Paris\n2. London\n- Rome"}

\* The texts and the counts parseSimpleAnswers is called with directly.
MaxAnswers == 3

Texts ==
    LLMTexts \cup
    {"Paris\nLondon", "\n\n  Paris  \n\t\nLondon\n", "answer2:London\nANSWER 12 : \"a b\" \r\nx",
     "1. Paris\n2.  London\n3.Rome", "* Paris\n-London\n-", "\"Paris\"\n'London'\n\"",
     "3.14\n-5", "Answer: Paris", "1.\n 2. \n", "Answer 1: 2. - \"x\"", " \t \r\n", "'a\"\n\"b"}

\* parseSimpleAnswers called with a text and a count.
CallParseSimpleAnswers(t, text, n) ==
    /\ Callable(t)
    /\ ncalls + MaxCalls <= MaxCalls
    /\ tasks' = [tasks EXCEPT ![t] =
           [Resolve(Begin(t, "parseSimpleAnswers", "")) EXCEPT
               !.req = <<[NoRequest EXCEPT !.text = text, !.n = n,
                                           !.answers = parseSimpleAnswers(text, n)]>>]]
    /\ ncalls' = ncalls + MaxCalls
    /\ UNCHANGED <<serverConfigs, clients, globalInitPromise, bulk, attempts, nops>>

\* ------------------------------------------- the HTTP endpoint, continued
\* refineQuery(url), lines 63-90: a generateText whose failure is caught
\* and leaves the text as it was.
refineQuery(t, ok) ==
    LET r == tasks[t]
    IN  /\ r.wrap = "POST" /\ r.returned /\ r.req[1].stage = "tools" /\ r.req[1].url
        /\ tasks' = [tasks EXCEPT ![t].req[1] =
               [@ EXCEPT !.stage = "prompt", !.llm = @ + 1,
                         !.prompt = IF ok THEN "refined" ELSE "original"]]
        /\ UNCHANGED <<serverConfigs, clients, globalInitPromise, bulk, attempts, nops, ncalls>>

\* What the generateText of line 104 may do.
LLMOutcomes == {[kind |-> "throw", text |-> ""]} \cup {[kind |-> "text", text |-> x] : x \in LLMTexts}

\* generateText whose exception is answered without a log entry.
generateText_CatchNoLog(q, o) ==
    IF o.kind = "text"
    THEN LogCall([q EXCEPT !.text = o.text, !.answers = parseSimpleAnswers(o.text, q.n)],
                 TRUE, 200)
    ELSE [q EXCEPT !.stage = "logging", !.status = 500]

\* Lines 104-154 and 161-174: the request once generateText has settled
\* with o, up to the await of logHackRxRequest.
generateText(q, o) ==
    IF o.kind = "text"
    THEN LogCall([q EXCEPT !.text = o.text, !.answers = parseSimpleAnswers(o.text, q.n)],
                 TRUE, 200)
    ELSE LogCall(q, FALSE, 500)

\* The handler from the prompt to the logging call (lines 84-154).
Generate(t, o) ==
    LET r == tasks[t]
    IN  /\ r.wrap = "POST" /\ r.returned
        /\ r.req[1].stage = "prompt" \/ (r.req[1].stage = "tools" /\ ~r.req[1].url)
        /\ tasks' = [tasks EXCEPT ![t].req[1] = generateText([@ EXCEPT !.llm = @ + 1], o)]
        /\ UNCHANGED <<serverConfigs, clients, globalInitPromise, bulk, attempts, nops, ncalls>>

\* logHackRxRequest, hackrx-logger.ts lines 23-62, settles: it resolves
\* whether the row was stored or not, and the handler returns its response
\* (route.ts lines 36-41, 156-159, 177-182).
logHackRxRequest(t, ok) ==
    LET r == tasks[t]
    IN  /\ r.wrap = "POST" /\ r.req[1].stage = "logging"
        /\ tasks' = [tasks EXCEPT ![t].req[1] =
               [@ EXCEPT !.stage = "responded", !.stored = Append(@, ok),
                         !.responses = Append(@, r.req[1].status)]]
        /\ UNCHANGED <<serverConfigs, clients, globalInitPromise, bulk, attempts, nops, ncalls>>

\* ------------------------------------------------ executeJavaScriptCode
\* One execution (the field js of a task holds it, or is empty): the child
\* process (running, signalled: sent SIGTERM and still there, exited, closed:
\* its pipes are closed too, failed: never started), its exit code ("null"
\* when a signal ended it), nodeProcess.killed, the timer of the spawn
\* option `timeout: 30000` (line 34), the timer of line 80 (callback) and
\* what the promise was resolved with.
NoExecution == [proc |-> "none", code |-> "none", killed |-> FALSE,
                spawnTimer |-> "none", callback |-> "none", result |-> <<>>]

\* resolve(x) of the promise of line 29: the first call settles it.
resolve(e, x) == IF e.result = <<>> THEN [e EXCEPT !.result = <<x>>] ELSE e

\* nodeProcess.kill(): the signal is sent, and killed set, when the child is
\* still there.
kill(e) ==
    IF e.proc \in {"running", "signalled"}
    THEN [e EXCEPT !.proc = "signalled", !.killed = TRUE] ELSE e

JsStep(t, e) ==
    /\ tasks' = [tasks EXCEPT ![t].js = <<e>>]
    /\ UNCHANGED <<serverConfigs, clients, globalInitPromise, bulk, attempts, nops, ncalls>>

\* executeJavaScriptCode(code), lines 15-106, up to its return: the file
\* system throws and the catch block returns a failure (how = "fsError"), or
\* the child is spawned and both timers are set; the spawn itself may fail
\* and emit 'error' later (how = "spawnError").
executeJavaScriptCode(t, how) ==
    /\ Callable(t)
    /\ ncalls + MaxCalls <= MaxCalls
    /\ tasks' = [tasks EXCEPT ![t] =
           [Begin(t, "executeJavaScriptCode", "") EXCEPT !.js =
               <<CASE how = "fsError" ->
                        resolve(NoExecution, [success |-> FALSE, error |-> "fs"])
                   [] how = "spawnError" ->
                        [NoExecution EXCEPT !.proc = "failed", !.spawnTimer = "armed",
                                            !.callback = "armed"]
                   [] how = "spawned" ->
                        [NoExecution EXCEPT !.proc = "running", !.spawnTimer = "armed",
                                            !.callback = "armed"]>>]]
    /\ ncalls' = ncalls + MaxCalls
    /\ UNCHANGED <<serverConfigs, clients, globalInitPromise, bulk, attempts, nops>>

\* The child ends: by itself with code 0 or 1, or by the signal it was sent
\* (code null).  The 'exit' event clears the timer of the spawn option.
Exit(t, c) ==
    /\ tasks[t].js # <<>>
    /\ LET e == tasks[t].js[1]
       IN  /\ e.proc \in {"running", "signalled"}
           /\ c = "null" => e.proc = "signalled"
           /\ JsStep(t, [e EXCEPT !.proc = "exited", !.code = c,
                                  !.spawnTimer = IF @ = "armed" THEN "cleared" ELSE @])

\* nodeProcess.on('close'), lines 48-68: the child has ended and its pipes
\* are closed.
Close(t) ==
    /\ tasks[t].js # <<>>
    /\ LET e == tasks[t].js[1]
       IN  /\ e.proc = "exited"
           /\ JsStep(t, resolve([e EXCEPT !.proc = "closed"],
                                [success |-> e.code = "0",
                                 error |-> IF e.code = "0" THEN "" ELSE "exit"]))

\* nodeProcess.on('error'), lines 70-80.
ErrorEvent(t) ==
    /\ tasks[t].js # <<>>
    /\ LET e == tasks[t].js[1]
       IN  /\ e.proc = "failed" /\ e.code = "none"
           /\ JsStep(t, resolve([e EXCEPT !.code = "error"],
                                [success |-> FALSE, error |-> "spawn"]))

\* The timer of the spawn option `timeout: 30000` expires: the runtime
\* calls nodeProcess.kill().
SpawnTimeout(t) ==
    /\ tasks[t].js # <<>>
    /\ LET e == tasks[t].js[1]
       IN  /\ e.spawnTimer = "armed"
           /\ JsStep(t, [kill(e) EXCEPT !.spawnTimer = "fired"])

\* The callback of setTimeout(..., 30000), lines 80-94.  Both timers expire
\* after the same 30000 ms; either may run first here.
Timeout(t) ==
    /\ tasks[t].js # <<>>
    /\ LET e == tasks[t].js[1]
       IN  /\ e.callback = "armed"
           /\ JsStep(t, IF ~e.killed
                        THEN resolve([kill(e) EXCEPT !.callback = "fired"],
                                     [success |-> FALSE, error |-> "timeout"])
                        ELSE [e EXCEPT !.callback = "fired"])

\* --------------------------------------------------- the agent's tools
\* What aiTool.execute(args) may do: resolve with a string, resolve with an
\* object, or throw an error with or without a message.
ToolOutcomes ==
    {[kind |-> "string", text |-> "found"], [kind |-> "object", text |-> "found"],
     [kind |-> "throw", text |-> "timeout"], [kind |-> "throw", text |-> ""]}

\* JSON.stringify of an object with the one string member `key`.
JSONstringify(key, text) == "{\"" \o key \o "\":\"" \o text \o "\"}"

\* The adapted execute without its try/catch (index.ts lines 18, 21-24).
convertAIToolToVoltAgent_NoCatch(name, o) ==
    CASE o.kind = "string" -> [outcome |-> "resolved", payload |-> o.text]
      [] o.kind = "object" -> [outcome |-> "resolved", payload |-> JSONstringify("data", o.text)]
      [] o.kind = "throw"  -> [outcome |-> "rejected", payload |-> o.text]

\* execute of the tool convertAIToolToVoltAgent(name, aiTool) builds, when
\* aiTool.execute does o (index.ts lines 17-25).
convertAIToolToVoltAgent(name, o) ==
    CASE o.kind = "string" -> [outcome |-> "resolved", payload |-> o.text]
      [] o.kind = "object" -> [outcome |-> "resolved", payload |-> JSONstringify("data", o.text)]
      [] o.kind = "throw"  ->
           [outcome |-> "resolved",
            payload |-> JSONstringify("error",
                           "Tool " \o name \o " failed: "
                              \o (IF o.text # "" THEN o.text ELSE "Unknown error"))]

\* The agent invokes the tool q of the tools it was built with, and the
\* tool's own execute does o.
execute(t, q, o) ==
    LET x == convertAIToolToVoltAgent(q, o)
    IN  /\ tasks[t].wrap = "getMCPTools" /\ tasks[t].returned
        /\ tasks[t].result = "none"
        /\ q \in {e.name : e \in tasks[t].ret}
        /\ tasks' = [tasks EXCEPT ![t].invoked = q, ![t].raw = o,
                                  ![t].result = x.outcome, ![t].payload = x.payload]
        /\ UNCHANGED <<serverConfigs, clients, globalInitPromise, bulk, attempts, nops, ncalls>>

\* initMCPClient that passes its argument to getClient even when it has none.
initMCPClient_AlwaysGetClient(t, S) == getClientCall(t, S, "initMCPClient")

\* initMCPClient(serverName), lines 311-317; S = "" is the call without a
\* server name.
initMCPClient(t, S) ==
    IF S # "" THEN getClientCall(t, S, "initMCPClient")
    ELSE initCall(t, "initMCPClient", <<>>)

\* ---------------------------------------------------------------- queries
\* isInitialized(S) that fetches the state through getClientState.
CallIsInitialized_GetClientState(t, S) ==
    /\ Callable(t)
    /\ tasks' = [tasks EXCEPT ![t] =
           [Resolve(Begin(t, "isInitialized", S)) EXCEPT !.flag = isInitialized(clients, S)]]
    /\ clients' = getClientState(clients, S)
    /\ ncalls' = ncalls + 1
    /\ UNCHANGED <<serverConfigs, globalInitPromise, bulk, attempts, nops>>

\* mcpClientManager.isInitialized(S), lines 279-282: clients.get(S), no
\* state is created.
CallIsInitialized(t, S) ==
    /\ Callable(t)
    /\ tasks' = [tasks EXCEPT ![t] =
           [Resolve(Begin(t, "isInitialized", S)) EXCEPT !.flag = isInitialized(clients, S)]]
    /\ clients' = clients
    /\ ncalls' = ncalls + 1
    /\ UNCHANGED <<serverConfigs, globalInitPromise, bulk, attempts, nops>>

\* mcpClientManager.getAvailableServers(), lines 284-286.
CallGetAvailableServers(t) ==
    /\ Callable(t)
    /\ tasks' = [tasks EXCEPT ![t] =
           [Resolve(Begin(t, "getAvailableServers", "")) EXCEPT
               !.enabled = getAvailableServers(serverConfigs)]]
    /\ ncalls' = ncalls + 1
    /\ UNCHANGED <<serverConfigs, clients, globalInitPromise, bulk, attempts, nops>>

\* mcpClientManager.getServerConfig(S), lines 296-298: the config, or
\* undefined (the empty sequence).
CallGetServerConfig(t, S) ==
    /\ Callable(t)
    /\ tasks' = [tasks EXCEPT ![t] =
           [Resolve(Begin(t, "getServerConfig", S)) EXCEPT
               !.config = IF HasConfig(serverConfigs, S)
                          THEN <<getServerConfig(serverConfigs, S)>> ELSE <<>>]]
    /\ ncalls' = ncalls + 1
    /\ UNCHANGED <<serverConfigs, clients, globalInitPromise, bulk, attempts, nops>>

\* ------------------------------------------------------ missing methods
\* The members of the object createMCPClientManager returns (lines 15-25,
\* 182-299).
MCPClientManager ==
    {"init", "getClient", "getTools", "getAllTools", "isInitialized",
     "getAvailableServers", "addServerConfig", "removeServerConfig", "getServerConfig"}

\* The methods the README calls on mcpClientManager.
DocumentedMethods == MCPClientManager \cup {"reset", "resetAll"}

\* mcpClientManager.m(S) for a method m the object does not have: the member
\* is undefined, the call throws a TypeError and touches no state.
CallMissing(t, m, S) ==
    /\ Callable(t)
    /\ m \notin MCPClientManager
    /\ tasks' = [tasks EXCEPT ![t] =
           [Begin(t, m, S) EXCEPT !.pc = "done", !.outcome = "TypeError"]]
    /\ ncalls' = ncalls + 1
    /\ UNCHANGED <<serverConfigs, clients, globalInitPromise, bulk, attempts, nops>>

\* ------------------------------------------------------ registry mutation
\* The configs a caller registers: enabled and well formed, disabled, or
\* enabled without the url or command its transport needs (lines 142, 147).
ConfigKinds == {<<TRUE, TRUE>>, <<FALSE, TRUE>>, <<TRUE, FALSE>>}

\* A call that leaves the registry as it is is not counted.
AddServerConfig(S, e, v) ==
    /\ nops < MaxConfigOps
    /\ <<e, v>> \in ConfigKinds
    /\ nops' = nops + 1
    /\ serverConfigs' = addServerConfig(serverConfigs, [name |-> S, enabled |-> e, valid |-> v])
    /\ serverConfigs' # serverConfigs
    /\ UNCHANGED <<clients, globalInitPromise, bulk, attempts, tasks, ncalls>>

\* removeServerConfig that also drops the server's connection state.
RemoveServerConfig_TearDown(S) ==
    /\ nops < MaxConfigOps
    /\ HasConfig(serverConfigs, S)
    /\ nops' = nops + 1
    /\ serverConfigs' = removeServerConfig(serverConfigs, S)
    /\ clients' = [x \in DOMAIN clients \ {S} |-> clients[x]]
    /\ UNCHANGED <<globalInitPromise, bulk, attempts, tasks, ncalls>>

RemoveServerConfig(S) ==
    /\ nops < MaxConfigOps
    /\ HasConfig(serverConfigs, S)
    /\ nops' = nops + 1
    /\ serverConfigs' = removeServerConfig(serverConfigs, S)
    /\ UNCHANGED <<clients, globalInitPromise, bulk, attempts, tasks, ncalls>>

\* ------------------------------------------------------------ the machine
Next ==
    \/ \E t \in Tasks, S \in Names : getClient(t, S)
    \/ \E t \in Tasks, S \in Names : getTools(t, S)
    \/ \E t \in Tasks : getAllTools(t)
    \/ \E t \in Tasks : init(t)
    \/ \E t \in Tasks : Loop(t)
    \/ \E t \in Tasks : AwaitResume(t)
    \/ \E t \in Tasks : AfterGetClient(t)
    \/ \E t \in Tasks : InitResume(t)
    \/ \E S \in Names : BulkCallback(S)
    \/ BulkThen
    \/ \E k \in 1..Len(attempts), ok \in BOOLEAN : Handshake(k, ok)
    \/ \E k \in 1..Len(attempts), ok \in BOOLEAN : ListTools(k, ok)
    \/ \E S \in Names, e \in BOOLEAN, v \in BOOLEAN : AddServerConfig(S, e, v)
    \/ \E S \in Names : RemoveServerConfig(S)
    \/ \E t \in Tasks, S \in Names : CallMissing(t, "reset", S)
    \/ \E t \in Tasks : CallMissing(t, "resetAll", "")
    \/ \E t \in Tasks, S \in Names : CallIsInitialized(t, S)
    \/ \E t \in Tasks : CallGetAvailableServers(t)
    \/ \E t \in Tasks, S \in Names : CallGetServerConfig(t, S)
    \/ \E t \in Tasks, S \in Names \cup {""} : initMCPClient(t, S)
    \/ \E t \in Tasks : Callable(t) /\ \E b \in Requests : POST(t, b)
    \/ \E t \in Tasks, ok \in BOOLEAN : refineQuery(t, ok)
    \/ \E t \in Tasks, o \in LLMOutcomes : Generate(t, o)
    \/ \E t \in Tasks, ok \in BOOLEAN : logHackRxRequest(t, ok)
    \/ \E t \in Tasks, how \in {"fsError", "spawnError", "spawned"} :
          executeJavaScriptCode(t, how)
    \/ \E t \in Tasks, c \in {"0", "1", "null"} : Exit(t, c)
    \/ \E t \in Tasks : Close(t)
    \/ \E t \in Tasks : ErrorEvent(t)
    \/ \E t \in Tasks : SpawnTimeout(t)
    \/ \E t \in Tasks : Timeout(t)
    \/ \E t \in Tasks : Callable(t) /\ ncalls = 0 /\
          \E text \in Texts, n \in 0..MaxAnswers : CallParseSimpleAnswers(t, text, n)
    \/ \E t \in Tasks : getMCPTools(t)
    \/ \E t \in Tasks : CallGetAllTools(t)
    \/ \E t \in Tasks : Return(t)
    \/ \E t \in Tasks, q \in QualifiedTools(Names) \cup StaticTools("getMCPTools"),
          o \in ToolOutcomes : execute(t, q, o)

Spec == Init /\ [][Next]_vars

\* The registry alone, with names among which some are array indices.
RegistryNames == {"rag", "rag_v0", "7", "10"}

RegistryNext ==
    \/ \E S \in RegistryNames, e \in BOOLEAN, v \in BOOLEAN : AddServerConfig(S, e, v)
    \/ \E S \in RegistryNames : RemoveServerConfig(S)
    \/ \E t \in Tasks : CallGetAvailableServers(t)

RegistrySpec == Init /\ [][RegistryNext]_vars

\* The steps the event loop runs by itself once they are ready: the
\* continuations of the manager's and the callers' async functions.  The
\* server's answers (Handshake, ListTools) are not among them: nothing in
\* lines 166-170 makes them happen.
Continuations ==
    \/ \E t \in Tasks : Loop(t)
    \/ \E t \in Tasks : AwaitResume(t)
    \/ \E t \in Tasks : AfterGetClient(t)
    \/ \E t \in Tasks : InitResume(t)
    \/ \E S \in Names : BulkCallback(S)
    \/ BulkThen
    \/ \E t \in Tasks : CallGetAllTools(t)
    \/ \E t \in Tasks : Return(t)

FairSpec == Spec /\ WF_vars(Continuations)

\* ============================================================ properties
AttemptsOf(S) == {k \in 1..Len(attempts) : attempts[k].srv = S}

\* The attempts for S that created a transport (lines 145, 163).
Creations(S) == {k \in AttemptsOf(S) : attempts[k].transport}

FailedHandshakes(S) == {k \in Creations(S) : attempts[k].phase = "failed"}

AllOk(S) == AttemptsOf(S) # {} /\ \A k \in AttemptsOf(S) : attempts[k].phase = "ok"

AllFailed(S) == AttemptsOf(S) # {} /\ \A k \in AttemptsOf(S) : attempts[k].phase = "failed"

HasPrefix(k, p) == Len(k) >= Len(p) /\ SubSeq(k, 1, Len(p)) = p

AdvertisedTools(Ss) == UNION {{ToolObject(S, x) : x \in ServerTools(S)} : S \in Ss}

\* C1: single-flight.  For every server at most one initialization that
\* created a transport is in flight or has succeeded (a further transport is
\* created only after a failure), and while one is in flight it is the one
\* recorded in the server's initPromise, the one every caller joins.
C1_SingleFlight ==
    \A S \in Names :
        /\ Cardinality({k \in AttemptsOf(S) : attempts[k].phase # "failed"}) <= 1
        /\ InFlight(S) # {} => S \in DOMAIN clients /\ clients[S].initPromise \in InFlight(S)
        /\ \A t \in Tasks : tasks[t].pc = "await" /\ tasks[t].srv = S
               /\ ~Settled(attempts[tasks[t].awaiting]) => InFlight(S) = {tasks[t].awaiting}

\* Two callers, or a caller and a callback of the bulk init, await the same
\* unsettled handshake.
C1_Witness ==
    \E S \in Names, t \in Tasks :
        /\ tasks[t].pc = "await" /\ tasks[t].srv = S /\ tasks[t].role = "join"
        /\ attempts[tasks[t].awaiting].phase = "handshake"
        /\ \/ \E u \in Tasks \ {t} : tasks[u].pc = "await" /\ tasks[u].role = "start"
                                     /\ tasks[u].awaiting = tasks[t].awaiting
           \/ bulk[S] = [st |-> "start", id |-> tasks[t].awaiting]

\* C2: once a handshake for S has failed, no later step creates a transport
\* for S.
C2_FailureSticky ==
    [][\A S \in Names : FailedHandshakes(S) # {} => Creations(S)' = Creations(S)]_vars

HandshakeFails(S) ==
    AttemptsOf(S) # {} /\ \A k \in AttemptsOf(S) : attempts[k].err = "Transport"

\* C3: init() never raises, and a getAllTools() that follows a resolved
\* init() over the enabled servers A and B resolves with every tool of A,
\* whose handshake succeeded, under a key A_x and with no key prefixed B_ for
\* B, whose handshakes fail.
C3_BulkIsolatesFailures ==
    /\ \A t \in Tasks : Done(t, "init") => tasks[t].outcome = "resolved"
    /\ \A t \in Tasks : Done(t, "getAllTools") /\ tasks[t].prev = "init" =>
          /\ tasks[t].outcome = "resolved"
          /\ \A A \in Range(tasks[t].enabled) \cap tasks[t].prevEnabled,
                B \in Range(tasks[t].enabled) \cap tasks[t].prevEnabled :
                AllOk(A) /\ HandshakeFails(B) =>
                   /\ \A x \in ServerTools(A) : Qualified(A, x) \in DOMAIN tasks[t].all
                   /\ \A k \in DOMAIN tasks[t].all : ~HasPrefix(k, B \o "_")

EnabledIn(cfgs) == {cfgs[i].name : i \in {j \in 1..Len(cfgs) : cfgs[j].enabled}}

\* C4: when init() has resolved, every server that was enabled when it was
\* called has a settled initialization attempt.
C4_InitCompletesAll ==
    \A t \in Tasks : Done(t, "init") =>
        \A S \in EnabledIn(tasks[t].cfgAtCall) : \E k \in AttemptsOf(S) : Settled(attempts[k])

\* C5: a getClient/getTools caller that awaited an attempt that failed is
\* rejected with that attempt's error; one that resolved did so with the
\* client, or the tools, of the attempt it awaited.
C5_FailureReachesAllWaiters ==
    \A t \in Tasks :
        tasks[t].pc = "done" /\ tasks[t].op \in {"getClient", "getTools"} /\ tasks[t].awaiting # 0 =>
            LET a == attempts[tasks[t].awaiting]
            IN  /\ a.phase = "failed" => tasks[t].outcome = "rejected" /\ tasks[t].err = tasks[t].awaiting
                /\ tasks[t].outcome = "resolved" =>
                      /\ a.phase = "ok"
                      /\ tasks[t].op = "getClient" => tasks[t].client = tasks[t].awaiting
                      /\ tasks[t].op = "getTools" => tasks[t].tools = ServerTools(tasks[t].srv)

\* The starter and a joiner of one failed handshake are both rejected with it.
C5_Witness ==
    \E t \in Tasks, u \in Tasks :
        /\ t # u
        /\ tasks[t].pc = "done" /\ tasks[t].role = "start" /\ tasks[t].outcome = "rejected"
        /\ tasks[u].pc = "done" /\ tasks[u].role = "join" /\ tasks[u].outcome = "rejected"
        /\ tasks[t].op \in {"getClient", "getTools"} /\ tasks[u].op \in {"getClient", "getTools"}
        /\ tasks[t].err = tasks[u].err
        /\ attempts[tasks[t].err].err = "Transport"

\* C6: the mapping getAllTools() returns has one entry per tool of the
\* servers whose tools it obtained.
C6_QualifiedNamesUnique ==
    \A t \in Tasks : Done(t, "getAllTools") =>
        Cardinality(DOMAIN tasks[t].all) = Cardinality(AdvertisedTools(tasks[t].got))

\* C7: when two servers whose tools getAllTools() obtained both advertise x,
\* the result holds both qualified names, each with its own server's tool.
C7_SameRawNameBothPresent ==
    \A t \in Tasks : Done(t, "getAllTools") =>
        \A S1 \in tasks[t].got, S2 \in tasks[t].got :
            S1 # S2 => \A x \in ServerTools(S1) \cap ServerTools(S2) :
                /\ Qualified(S1, x) # Qualified(S2, x)
                /\ Qualified(S1, x) \in DOMAIN tasks[t].all
                /\ tasks[t].all[Qualified(S1, x)] = ToolObject(S1, x)

\* C8: a getTools(S) that resolves does so with the tools the server
\* advertises and S ready, never with the placeholder of a state that is not
\* ready; and a getTools(S) for a name with no state creates the state and
\* starts its initialization.
C8_GetToolsLazyInit ==
    /\ [](\A t \in Tasks : Done(t, "getTools") /\ tasks[t].outcome = "resolved" =>
            /\ tasks[t].tools = ServerTools(tasks[t].srv)
            /\ tasks[t].tools # {}
            /\ isInitialized(clients, tasks[t].srv))
    /\ [][\A t \in Tasks :
            tasks'[t] # tasks[t] /\ tasks'[t].op = "getTools" /\ tasks[t].pc \in {"idle", "done"}
            /\ tasks'[t].srv \notin DOMAIN clients =>
                /\ tasks'[t].srv \in DOMAIN clients'
                /\ Len(attempts') = Len(attempts) + 1
                /\ attempts'[Len(attempts')].srv = tasks'[t].srv
                /\ clients'[tasks'[t].srv].initPromise = Len(attempts')
                /\ tasks'[t].pc = "await" /\ tasks'[t].awaiting = Len(attempts')]_vars

\* The first attempt of all was started by a getTools(S), which resolved with
\* the server's tools.
C8_Witness ==
    \E t \in Tasks :
        /\ Done(t, "getTools") /\ tasks[t].outcome = "resolved"
        /\ tasks[t].role = "start" /\ tasks[t].awaiting = 1
        /\ tasks[t].tools = ServerTools(tasks[t].srv)

\* C9: a reset(S) call on a ready server S resolves and leaves S not ready.
C9_ResetReturnsToUninitialized ==
    [][\A t \in Tasks :
          tasks'[t] # tasks[t] /\ tasks'[t].op = "reset"
          /\ isInitialized(clients, tasks'[t].srv) =>
              /\ tasks'[t].outcome = "resolved"
              /\ ~isInitialized(clients', tasks'[t].srv)]_vars

\* C10: no step creates a transport for a server that is not enabled in the
\* registry; getAllTools() works on exactly the servers enabled when it is
\* called, and it returns exactly the qualified tools of those of them whose
\* tools it obtained, which include every one that is ready at the end and
\* never failed.
C10_DisabledExcluded ==
    /\ [][\A k \in 1..Len(attempts') :
            k > Len(attempts) /\ attempts'[k].transport =>
                \E i \in 1..Len(serverConfigs) :
                    serverConfigs[i].name = attempts'[k].srv /\ serverConfigs[i].enabled]_vars
    /\ [](\A t \in Tasks : Done(t, "getAllTools") =>
            /\ tasks[t].outcome = "resolved"
            /\ Range(tasks[t].enabled) = EnabledIn(tasks[t].cfgAtCall)
            /\ tasks[t].got \subseteq EnabledIn(tasks[t].cfgAtCall)
            /\ DOMAIN tasks[t].all = QualifiedTools(tasks[t].got)
            /\ \A S \in Range(tasks[t].enabled) : AllOk(S) => S \in tasks[t].got)

\* getAllTools() has returned the tools of the enabled server "rag" while
\* "rag_v0" is registered disabled and was never contacted.
C10_Witness ==
    \E t \in Tasks :
        /\ Done(t, "getAllTools")
        /\ HasConfig(tasks[t].cfgAtCall, "rag_v0")
        /\ ~getServerConfig(tasks[t].cfgAtCall, "rag_v0").enabled
        /\ "rag" \in EnabledIn(tasks[t].cfgAtCall)
        /\ DOMAIN tasks[t].all = {"rag_v0_search"}
        /\ AttemptsOf("rag_v0") = {}

\* C11: no step registers a config that lacks the url or the command its
\* transport needs: the registry holds such a config after a step only if it
\* held the same config before it.
C11_InconsistentConfigRejected ==
    [][\A i \in 1..Len(serverConfigs') :
          ~serverConfigs'[i].valid => serverConfigs'[i] \in Range(serverConfigs)]_vars

\* C12: getAllTools() is never rejected, whatever fails and whatever happens
\* to the registry while it runs.  It resolves with exactly the qualified
\* tools of the servers whose getTools resolved, each of them a tool of a
\* server whose initialization succeeded; a server of its list whose tools it
\* did not obtain had a failed attempt and owns no entry of the result.
C12_GetAllToolsNeverRejects ==
    \A t \in Tasks : tasks[t].op = "getAllTools" =>
        /\ tasks[t].outcome # "rejected"
        /\ tasks[t].got \subseteq Range(tasks[t].enabled)
        /\ \A S \in tasks[t].got : \E k \in AttemptsOf(S) : attempts[k].phase = "ok"
        /\ \A q \in DOMAIN tasks[t].all :
              LET o == tasks[t].all[q]
              IN  o.srv \in tasks[t].got /\ o.name \in ServerTools(o.srv)
                  /\ q = Qualified(o.srv, o.name)
        /\ tasks[t].pc = "done" =>
              /\ tasks[t].outcome = "resolved"
              /\ DOMAIN tasks[t].all = QualifiedTools(tasks[t].got)
              /\ \A S \in Range(tasks[t].enabled) \ tasks[t].got :
                    \E k \in AttemptsOf(S) : attempts[k].phase = "failed"

\* getAllTools() resolved with the tools of "rag" after the config of another
\* server of its list was removed or disabled while it was waiting, and that
\* server's initialization was refused.
C12_Witness ==
    \E t \in Tasks, S \in Names :
        /\ Done(t, "getAllTools") /\ tasks[t].outcome = "resolved"
        /\ tasks[t].got = {"rag"} /\ DOMAIN tasks[t].all = QualifiedTools({"rag"})
        /\ S \in Range(tasks[t].enabled) \ tasks[t].got
        /\ S \notin EnabledIn(serverConfigs)
        /\ \E k \in AttemptsOf(S) : attempts[k].err = "NotConfigured"

\* C13: while S is ready no step starts an attempt for S or changes S's
\* client, tools or initialized flag; a call of any operation leaves S's whole
\* state as it is; and a getClient(S) or getTools(S) called then resolves in
\* the same step, without awaiting anything, with the client or the tools
\* that S's successful initialization stored.
C13_ReadyFastPath ==
    [][\A S \in Names : isInitialized(clients, S) =>
          /\ AttemptsOf(S)' = AttemptsOf(S)
          /\ \A k \in AttemptsOf(S) : attempts'[k] = attempts[k]
          /\ clients'[S].client = clients[S].client
          /\ clients'[S].tools = clients[S].tools
          /\ clients'[S].initialized = clients[S].initialized
          /\ ncalls' # ncalls => clients'[S] = clients[S]
          /\ \A t \in Tasks :
                /\ ncalls' # ncalls /\ tasks'[t] # tasks[t] /\ tasks'[t].srv = S
                /\ tasks'[t].op \in {"getClient", "getTools"}
                => /\ tasks'[t].pc = "done" /\ tasks'[t].outcome = "resolved"
                   /\ tasks'[t].awaiting = 0
                   /\ tasks'[t].op = "getClient" =>
                         /\ tasks'[t].client = clients[S].client
                         /\ attempts[tasks'[t].client].phase = "ok"
                         /\ attempts[tasks'[t].client].srv = S
                   /\ tasks'[t].op = "getTools" =>
                         /\ tasks'[t].tools = clients[S].tools
                         /\ tasks'[t].tools = ServerTools(S)
          /\ \A t \in Tasks :
                tasks'[t].op = "getAllTools" /\ S \in tasks'[t].got \ tasks[t].got =>
                    \A x \in clients[S].tools : Qualified(S, x) \in DOMAIN tasks'[t].all]_vars

\* A getClient(S) was answered, without an await, with the client that the
\* one initialization of S had stored.
C13_Witness ==
    \E t \in Tasks :
        /\ Done(t, "getClient") /\ tasks[t].outcome = "resolved" /\ tasks[t].awaiting = 0
        /\ tasks[t].client # 0
        /\ attempts[tasks[t].client].phase = "ok"
        /\ Cardinality(AttemptsOf(tasks[t].srv)) = 1

\* C14: neither manager call of the HTTP endpoint or of the agent's tool
\* loader is ever rejected, and the caller goes on with every static tool
\* and, under their qualified names, exactly the tools of the servers whose
\* tools getAllTools() obtained, every one a server whose initialization
\* succeeded; with no such server it goes on with the static tools alone.
C14_CallersNeverHardFail ==
    \A t \in Tasks : tasks[t].wrap \in Callers =>
        /\ tasks[t].outcome # "rejected"
        /\ tasks[t].returned =>
              /\ Done(t, "getAllTools") /\ tasks[t].outcome = "resolved"
              /\ {e.name : e \in tasks[t].ret}
                    = StaticTools(tasks[t].wrap) \cup QualifiedTools(tasks[t].got)
              /\ \A q \in StaticTools(tasks[t].wrap) :
                    [name |-> q, tool |-> StaticTool(q)] \in tasks[t].ret
              /\ \A e \in tasks[t].ret : e.name \notin StaticTools(tasks[t].wrap) =>
                    /\ e.tool.srv \in tasks[t].got
                    /\ e.name = Qualified(e.tool.srv, e.tool.name)
                    /\ \E k \in AttemptsOf(e.tool.srv) : attempts[k].phase = "ok"

\* The HTTP endpoint went on with its static tool and the tools of "rag_v0"
\* after every initialization of the enabled server "rag" had failed.
C14_Witness ==
    \E t \in Tasks :
        /\ tasks[t].wrap = "POST" /\ tasks[t].returned
        /\ Range(tasks[t].enabled) = {"rag", "rag_v0"}
        /\ AllFailed("rag") /\ tasks[t].got = {"rag_v0"}
        /\ {e.name : e \in tasks[t].ret}
              = {"javaScriptTool", "rag_v0_search", "rag_v0_v0_search"}

\* C15: whatever the tool's own execute does, the adapted execute resolves:
\* with the string the tool returned, with the JSON text of the object it
\* returned, or, when it threw, with an error payload that names the tool.
\* The invocation changes no server's state, and the server that owns the
\* invoked tool is ready.
C15_ToolFailureIsAResult ==
    /\ [](\A t \in Tasks : tasks[t].result # "none" =>
            /\ tasks[t].result = "resolved"
            /\ tasks[t].raw.kind = "string" => tasks[t].payload = tasks[t].raw.text
            /\ tasks[t].raw.kind = "object" =>
                  /\ HasPrefix(tasks[t].payload, "{\"data\":")
                  /\ tasks[t].payload # tasks[t].raw.text
            /\ tasks[t].raw.kind = "throw" =>
                  HasPrefix(tasks[t].payload, "{\"error\":\"Tool " \o tasks[t].invoked \o " failed: ")
            /\ tasks[t].raw.kind # "throw" => ~HasPrefix(tasks[t].payload, "{\"error\":")
            /\ \A e \in tasks[t].ret : e.name = tasks[t].invoked /\ e.tool.srv # "" =>
                  isInitialized(clients, e.tool.srv))
    /\ [][\A t \in Tasks : tasks'[t].result # tasks[t].result /\ tasks[t].result = "none" =>
            clients' = clients /\ attempts' = attempts]_vars

\* The agent invoked an MCP tool that threw, and got the error payload as
\* the tool's result while the tool's server stayed ready.
C15_Witness ==
    \E t \in Tasks :
        /\ tasks[t].result = "resolved" /\ tasks[t].raw = [kind |-> "throw", text |-> "timeout"]
        /\ tasks[t].invoked = "rag_v0_search"
        /\ tasks[t].payload = "{\"error\":\"Tool rag_v0_search failed: timeout\"}"
        /\ isInitialized(clients, "rag")

\* C16: a step that changes the registry changes nothing else: no server's
\* client, tools, flag or pending initialization, no attempt in flight, no
\* caller.  A getClient(S) for a ready S whose config is no longer registered
\* resolves in the same step with S's live client, starts no attempt and
\* leaves S ready.
C16_RegistryDecoupled ==
    /\ [][serverConfigs' # serverConfigs =>
            /\ clients' = clients /\ attempts' = attempts /\ tasks' = tasks
            /\ bulk' = bulk /\ globalInitPromise' = globalInitPromise]_vars
    /\ [][\A t \in Tasks :
            /\ ncalls' # ncalls /\ tasks'[t] # tasks[t] /\ tasks'[t].op = "getClient"
            /\ isInitialized(clients, tasks'[t].srv)
            /\ ~HasConfig(serverConfigs, tasks'[t].srv)
            => /\ tasks'[t].pc = "done" /\ tasks'[t].outcome = "resolved"
               /\ tasks'[t].client = clients[tasks'[t].srv].client
               /\ tasks'[t].client # 0
               /\ attempts' = attempts
               /\ isInitialized(clients', tasks'[t].srv)]_vars

\* getClient(S) returned the live client of a server whose config had been
\* removed, and S is still ready.
C16_Witness ==
    \E t \in Tasks :
        /\ Done(t, "getClient") /\ tasks[t].outcome = "resolved" /\ tasks[t].awaiting = 0
        /\ ~HasConfig(serverConfigs, tasks[t].srv)
        /\ isInitialized(clients, tasks[t].srv)
        /\ tasks[t].client = clients[tasks[t].srv].client
        /\ Cardinality(AttemptsOf(tasks[t].srv)) = 1

\* C17: in every state, for every server with a state: it is ready exactly
\* when it holds a client whose initialization has completed its tool
\* listing, and then its tools are the listed ones; the initialized flag is
\* never set without a client; and a server that is not ready has no tools.
C17_ReadyIffClientAndTools ==
    \A S \in DOMAIN clients :
        LET st == clients[S]
        IN  /\ st.initialized => st.client # 0
            /\ isInitialized(clients, S) <=>
                  (st.client # 0 /\ attempts[st.client].phase = "ok")
            /\ isInitialized(clients, S) =>
                  /\ attempts[st.client].srv = S
                  /\ st.tools = ServerTools(S)
            /\ ~isInitialized(clients, S) => st.tools = {} /\ ~st.initialized
            /\ st.client # 0 => attempts[st.client].phase \in {"listing", "ok"}

\* One server is ready while another holds a client whose tool listing has
\* not finished, and is not ready.
C17_Witness ==
    \E S \in DOMAIN clients, T \in DOMAIN clients :
        /\ isInitialized(clients, S) /\ clients[S].tools = ServerTools(S)
        /\ clients[T].client # 0 /\ attempts[clients[T].client].phase = "listing"
        /\ ~isInitialized(clients, T)

\* The caller that started attempt k for S has not yet resumed from its await.
StarterPending(S, k) ==
    \/ \E t \in Tasks : tasks[t].pc = "await" /\ tasks[t].role = "start"
                        /\ tasks[t].srv = S /\ tasks[t].awaiting = k
    \/ bulk[S] = [st |-> "start", id |-> k]

\* C18: the step in which an attempt for S fails leaves S with no client, no
\* tools and initialized = false, or, when S is not configured or disabled,
\* with the client, tools and flag it had; the pending handle of a failed
\* attempt stays only until the caller that started it resumes, and that
\* step clears it.
C18_FailureClearsState ==
    /\ [][\A k \in 1..Len(attempts') :
            attempts'[k].phase = "failed"
            /\ (k > Len(attempts) \/ attempts[k].phase # "failed") =>
                LET S   == attempts'[k].srv
                    old == getClientState(clients, S)[S]
                    new == getClientState(clients', S)[S]
                IN  IF attempts'[k].err = "NotConfigured"
                    THEN new.client = old.client /\ new.tools = old.tools
                         /\ new.initialized = old.initialized
                    ELSE new.client = 0 /\ new.tools = {} /\ ~new.initialized]_vars
    /\ [](\A S \in DOMAIN clients :
            clients[S].initPromise # 0 /\ attempts[clients[S].initPromise].phase = "failed"
                => StarterPending(S, clients[S].initPromise))
    /\ [][\A S \in DOMAIN clients :
            /\ clients[S].initPromise # 0
            /\ attempts[clients[S].initPromise].phase = "failed"
            /\ ~StarterPending(S, clients[S].initPromise)'
            => clients'[S] = NewClientState]_vars

\* A tool listing failed after a successful handshake, the starter has
\* resumed, and the server is back to a state with nothing in it.
C18_Witness ==
    \E S \in DOMAIN clients :
        /\ \E k \in AttemptsOf(S) : attempts[k].err = "ToolList"
        /\ \A k \in AttemptsOf(S) : attempts[k].phase = "failed"
        /\ clients[S] = NewClientState
        /\ \E t \in Tasks : tasks[t].outcome = "rejected" /\ tasks[t].srv = S

\* C19: S becomes ready only in the step that ends the tool listing of an
\* attempt for S whose handshake had already stored the client; and the step
\* in which a getClient(S) or getTools(S) resolves finds and leaves S ready,
\* and hands out the client of that completed attempt, or the listed tools.
C19_ReadyAfterInitCompletes ==
    /\ [][\A S \in Names : isInitialized(clients', S) /\ ~isInitialized(clients, S) =>
            \E k \in AttemptsOf(S) :
                /\ attempts[k].phase = "listing" /\ attempts'[k].phase = "ok"
                /\ clients[S].client = k /\ clients'[S].client = k
                /\ clients'[S].tools = ServerTools(S)]_vars
    /\ [][\A t \in Tasks :
            /\ tasks'[t] # tasks[t]
            /\ tasks'[t].op \in {"getClient", "getTools"}
            /\ tasks'[t].pc = "done" /\ tasks'[t].outcome = "resolved"
            => LET S == tasks'[t].srv
               IN  /\ isInitialized(clients, S) /\ isInitialized(clients', S)
                   /\ tasks'[t].op = "getClient" =>
                         /\ tasks'[t].client # 0
                         /\ tasks'[t].client = clients'[S].client
                         /\ attempts'[tasks'[t].client].phase = "ok"
                   /\ tasks'[t].op = "getTools" =>
                         /\ tasks'[t].tools = ServerTools(S)
                         /\ tasks'[t].tools = clients'[S].tools]_vars

\* A caller that joined an initialization during its handshake resolved with
\* the client only after the tool listing had completed.
C19_Witness ==
    \E t \in Tasks :
        /\ Done(t, "getClient") /\ tasks[t].outcome = "resolved" /\ tasks[t].role = "join"
        /\ tasks[t].client = tasks[t].awaiting
        /\ attempts[tasks[t].awaiting].phase = "ok"
        /\ isInitialized(clients, tasks[t].srv)

\* No attempt is in flight and no caller is inside a call of the manager.
Quiescent ==
    /\ \A k \in 1..Len(attempts) : Settled(attempts[k])
    /\ \A t \in Tasks : tasks[t].pc \in {"idle", "done"}

\* C20: a per-server handle whose attempt has settled, by success or by
\* failure, is set only while the caller that started the attempt has not
\* resumed; the bulk handle is set only while the init() that set it waits;
\* and in a quiescent state no per-server handle, no bulk handle and no
\* bulk callback is left.
C20_NoStuckInitializing ==
    /\ \A S \in DOMAIN clients :
          clients[S].initPromise # 0 =>
              /\ clients[S].initPromise \in AttemptsOf(S)
              /\ Settled(attempts[clients[S].initPromise])
                    => StarterPending(S, clients[S].initPromise)
    /\ globalInitPromise =>
          \E t \in Tasks : tasks[t].pc = "bulkWait" /\ tasks[t].role = "start"
    /\ ~globalInitPromise => bulk = NoBulk
    /\ Quiescent =>
          /\ \A S \in DOMAIN clients : clients[S].initPromise = 0
          /\ ~globalInitPromise
          /\ bulk = NoBulk

\* A bulk init() over two servers, one initialized and one failed, has
\* resolved and everything is quiescent with no handle left.
C20_Witness ==
    /\ Quiescent
    /\ \E t \in Tasks : Done(t, "init") /\ tasks[t].role = "start"
                        /\ Range(tasks[t].enabled) = {"rag", "rag_v0"}
    /\ \E S \in Names : AllOk(S)
    /\ \E S \in Names : \E k \in AttemptsOf(S) : attempts[k].err \in {"Transport", "ToolList"}
    /\ \A S \in DOMAIN clients : clients[S].initPromise = 0
    /\ ~globalInitPromise

\* The clients a successful handshake created (line 166).  The manager has
\* no operation that closes a client, so every one of them is still open.
LiveClients == {k \in 1..Len(attempts) : attempts[k].phase \in {"listing", "ok"}
                                         \/ attempts[k].err = "ToolList"}

\* C24: every client a successful handshake created is the client of its
\* server's state.
C24_LiveClientReachable ==
    \A k \in LiveClients :
        attempts[k].srv \in DOMAIN clients /\ clients[attempts[k].srv].client = k

\* C22 as stated: a getClient(S) or getTools(S) called while S is neither
\* ready nor registered as enabled ends rejected with the 'not configured or
\* disabled' error.
C22_UnconfiguredRejected ==
    \A t \in Tasks : tasks[t].pc = "done" /\ tasks[t].off =>
        /\ tasks[t].outcome = "rejected"
        /\ attempts[tasks[t].err].err = "NotConfigured"

\* C22 as amended: the same, for a call made while S has no initialization
\* pending.  The call creates no transport, it is rejected with the refusal,
\* and the step that rejects it leaves S not ready and without a handle.
C22_UnconfiguredRejectedUnlessPending ==
    /\ [](\A t \in Tasks : tasks[t].off /\ tasks[t].role = "start" =>
            /\ attempts[tasks[t].awaiting].srv = tasks[t].srv
            /\ attempts[tasks[t].awaiting].err = "NotConfigured"
            /\ ~attempts[tasks[t].awaiting].transport
            /\ tasks[t].pc = "done" =>
                  tasks[t].outcome = "rejected" /\ tasks[t].err = tasks[t].awaiting)
    /\ [](\A t \in Tasks : tasks[t].off => tasks[t].role \in {"start", "join"})
    /\ [][\A t \in Tasks :
            tasks[t].off /\ tasks[t].role = "start" /\ tasks[t].pc = "await"
            /\ tasks'[t].pc = "done" =>
                /\ ~isInitialized(clients', tasks[t].srv)
                /\ clients'[tasks[t].srv].initPromise = 0
                /\ Creations(tasks[t].srv)' = Creations(tasks[t].srv)]_vars

\* getTools("rag_v0") for the never registered "rag_v0" was rejected, and
\* nothing was created for it.
C22_Witness ==
    \E t \in Tasks :
        /\ Done(t, "getTools") /\ tasks[t].off /\ tasks[t].role = "start"
        /\ tasks[t].srv = "rag_v0" /\ ~HasConfig(serverConfigs, "rag_v0") /\ nops = 0
        /\ tasks[t].outcome = "rejected"
        /\ Creations("rag_v0") = {}
        /\ clients["rag_v0"] = NewClientState

Queries == {"isInitialized", "getAvailableServers", "getServerConfig"}

\* C30: a call of isInitialized(S), getAvailableServers() or
\* getServerConfig(S) changes neither the registry nor any server's state nor
\* the set of servers that have a state, and starts nothing; isInitialized(S)
\* answers whether S is ready, false for a name without a state.
C30_QueriesReadOnly ==
    [][\A t \in Tasks :
          ncalls' # ncalls /\ tasks'[t] # tasks[t] /\ tasks'[t].op \in Queries =>
              /\ serverConfigs' = serverConfigs
              /\ DOMAIN clients' = DOMAIN clients
              /\ clients' = clients
              /\ attempts' = attempts
              /\ bulk' = bulk /\ globalInitPromise' = globalInitPromise
              /\ tasks'[t].pc = "done" /\ tasks'[t].outcome = "resolved"
              /\ tasks'[t].op = "isInitialized" =>
                    /\ tasks'[t].flag <=>
                          (tasks'[t].srv \in DOMAIN clients
                              /\ clients[tasks'[t].srv].initialized
                              /\ clients[tasks'[t].srv].client # 0)
                    /\ tasks'[t].srv \notin DOMAIN clients =>
                          ~tasks'[t].flag /\ tasks'[t].srv \notin DOMAIN clients'
              /\ tasks'[t].op = "getServerConfig" =>
                    /\ Len(tasks'[t].config) <= 1
                    /\ \A i \in 1..Len(tasks'[t].config) :
                          tasks'[t].config[i] \in Range(serverConfigs)
                          /\ tasks'[t].config[i].name = tasks'[t].srv]_vars

\* isInitialized("rag_v0") answered false for a name nothing ever referred
\* to, and the name still has no state, while "rag" has one.
C30_Witness ==
    \E t \in Tasks :
        /\ Done(t, "isInitialized") /\ tasks[t].srv = "rag_v0" /\ ~tasks[t].flag
        /\ DOMAIN clients = {"rag"}
        /\ AttemptsOf("rag_v0") = {}

\* C25: a call initMCPClient(S) is a getClient(S): every attempt it starts is
\* for S, no step of it touches the state of another server or the bulk
\* handle, and it joins an initialization of S that is pending.  A call
\* without a name is an init(): it is never rejected.
C25_InitMCPClientScope ==
    /\ [][\A t \in Tasks :
            tasks'[t] # tasks[t] /\ tasks'[t].wrap = "initMCPClient" /\ tasks'[t].srv # "" =>
                LET S == tasks'[t].srv
                IN  /\ tasks'[t].op = "getClient"
                    /\ \A k \in 1..Len(attempts') : k > Len(attempts) => attempts'[k].srv = S
                    /\ Len(attempts') <= Len(attempts) + 1
                    /\ \A T \in Names \ {S} :
                          /\ T \in DOMAIN clients' <=> T \in DOMAIN clients
                          /\ T \in DOMAIN clients => clients'[T] = clients[T]
                    /\ bulk' = bulk /\ globalInitPromise' = globalInitPromise
                    /\ S \in DOMAIN clients /\ ~Ready(clients[S])
                       /\ clients[S].initPromise # 0 /\ tasks[t].pc # "await" =>
                          /\ attempts' = attempts
                          /\ tasks'[t].awaiting = clients[S].initPromise]_vars
    /\ [](\A t \in Tasks : tasks[t].wrap = "initMCPClient" /\ tasks[t].srv = "" =>
            tasks[t].op = "init" /\ tasks[t].outcome # "rejected")

\* initMCPClient("rag_v0") has initialized the registered "rag_v0" while
\* "rag", enabled as well, was left without a state.
C25_Witness ==
    \E t \in Tasks :
        /\ tasks[t].wrap = "initMCPClient" /\ Done(t, "getClient")
        /\ tasks[t].srv = "rag_v0" /\ tasks[t].outcome = "resolved"
        /\ isInitialized(clients, "rag_v0")
        /\ "rag" \in Range(getAvailableServers(serverConfigs))
        /\ "rag" \notin DOMAIN clients

\* C21: every call of the manager that has started eventually settles,
\* whatever the servers do.
C21_CallsSettle ==
    \A t \in Tasks : (tasks[t].pc \notin {"idle", "done"}) ~> (tasks[t].pc = "done")

\* The requests of the endpoint: the tasks that are in POST or were.
Handlers == {t \in Tasks : tasks[t].wrap = "POST" /\ tasks[t].req # <<>>}

C28_OneResponseOneLog ==
    /\ [](\A t \in Handlers :
            LET q == tasks[t].req[1]
            IN  /\ Len(q.responses) <= 1 /\ Len(q.logs) <= 1
                /\ Len(q.responses) = 1 <=> q.stage = "responded"
                /\ q.stage \in {"logging", "responded"} <=> Len(q.logs) = 1
                /\ q.stage = "responded" =>
                      /\ q.logs[1].success <=> q.responses[1] = 200
                      /\ q.responses[1] \in {200, 400, 500}
                      /\ Len(q.stored) = 1)
    /\ [][\A t \in Tasks, st \in {200, 400, 500} :
            /\ tasks[t].req # <<>> /\ tasks[t].wrap = "POST"
            /\ tasks[t].req[1].stage = "logging" /\ tasks[t].req[1].status = st
            /\ tasks'[t] # tasks[t]
            => /\ tasks'[t].req[1].stage = "responded"
               /\ tasks'[t].req[1].responses = <<st>>
               /\ tasks'[t].req[1].logs = tasks[t].req[1].logs]_vars

\* A request whose generateText threw was answered 500 although the logger
\* had failed to store its entry.
C28_Witness ==
    \E t \in Handlers :
        LET q == tasks[t].req[1]
        IN  /\ q.stage = "responded" /\ q.llm >= 1 /\ tasks[t].returned
            /\ q.responses = <<500>> /\ q.logs = <<[success |-> FALSE]>>
            /\ q.stored = <<FALSE>>

\* The non-blank lines of a text, as the pairs of the positions where they
\* start and end: the maximal runs without a line feed that hold a character
\* that is not white space.
NonBlankLines(s) ==
    {sg \in (1..Len(s)) \X (1..Len(s)) :
        /\ sg[1] <= sg[2]
        /\ sg[1] = 1 \/ At(s, sg[1] - 1) = "\n"
        /\ sg[2] = Len(s) \/ At(s, sg[2] + 1) = "\n"
        /\ \A k \in sg[1]..sg[2] : At(s, k) # "\n"
        /\ \E k \in sg[1]..sg[2] : At(s, k) \notin WhiteSpace}

\* The i-th of them.
NonBlankLine(s, i) ==
    LET L  == NonBlankLines(s)
        sg == CHOOSE x \in L : Cardinality({y \in L : y[1] < x[1]}) = i - 1
    IN  SubSeq(s, sg[1], sg[2])

\* a is a run of consecutive characters of l.
IsPartOf(a, l) ==
    \E i \in 1..(Len(l) + 1) : \E j \in (i - 1)..Len(l) : SubSeq(l, i, j) = a

\* C29: parseSimpleAnswers(text, n) has n answers; answer i is a part of the
\* i-th non-blank line of the text, without white space around it, when the
\* text has that line, and "NOT_FOUND" otherwise; and a response with status
\* 200 carries as many answers as the request had questions.
C29_ParseSimpleAnswersCount ==
    \A t \in Tasks :
        tasks[t].req # <<>> /\ (tasks[t].op = "parseSimpleAnswers" \/ tasks[t].req[1].status = 200) =>
            LET q == tasks[t].req[1]
            IN  /\ Len(q.answers) = q.n
                /\ \A i \in 1..q.n :
                      IF i <= Cardinality(NonBlankLines(q.text))
                      THEN /\ IsPartOf(q.answers[i], NonBlankLine(q.text, i))
                           /\ q.answers[i] = trim(q.answers[i])
                      ELSE q.answers[i] = "NOT_FOUND"
                /\ q.status = 200 => q.n >= 1 /\ q.questions = "array"

\* parseSimpleAnswers was called for three answers with a text of two
\* non-blank lines among blank ones.
C29_Witness ==
    \E t \in Tasks :
        /\ Done(t, "parseSimpleAnswers")
        /\ tasks[t].req[1].text = "\n\n  Paris  \n\t\nLondon\n" /\ tasks[t].req[1].n = 3
        /\ tasks[t].req[1].answers = <<"Paris", "London", "NOT_FOUND">>

\* C26: once the 30 seconds have passed (the callback of line 80 has run)
\* the promise of executeJavaScriptCode is resolved, with a failure when the
\* child had not closed by then; a success is a close with exit code 0.
C26_ExecutionBounded ==
    \A t \in Tasks : tasks[t].js # <<>> =>
        LET e == tasks[t].js[1]
        IN  /\ e.callback = "fired" => e.result # <<>>
            /\ e.result # <<>> /\ e.result[1].success => e.proc = "closed" /\ e.code = "0"

\* C23: getAvailableServers() lists the enabled names in registration order:
\* a name that is registered as enabled and was not registered comes last,
\* a name replaced by an add keeps its place (or leaves or joins the list
\* there), a removal leaves the others in their order, and no name is listed
\* twice.
C23_RegistrationOrder ==
    [][LET old == getAvailableServers(serverConfigs)
           new == getAvailableServers(serverConfigs')
           Without(q, S) == SelectSeq(q, LAMBDA x : x # S)
       IN  /\ \A i, j \in 1..Len(new) : i # j => new[i] # new[j]
           /\ \A S \in RegistryNames :
                 /\ ~HasConfig(serverConfigs, S) /\ HasConfig(serverConfigs', S) =>
                       new = IF getServerConfig(serverConfigs', S).enabled
                             THEN Append(old, S) ELSE old
                 /\ HasConfig(serverConfigs, S) /\ serverConfigs' # serverConfigs
                    /\ (\A T \in RegistryNames \ {S} :
                           HasConfig(serverConfigs', T) <=> HasConfig(serverConfigs, T)) =>
                       Without(new, S) = Without(old, S)]_vars

====
